---------------------------- MODULE Spec2Model ----------------------------
(***************************************************************************)
(* Model of MultiCycleAnalysisCoordinator                                  *)
(* (src/src/specify_cli/analyzers/multi_cycle_coordinator.py).             *)
(*                                                                         *)
(* One run of coordinate_multi_cycle_analysis is a sequence of steps       *)
(* separated by the await points of the coroutine: the four analyzers are  *)
(* the environment, every call returns a payload or raises.  Confidence    *)
(* values are kept in hundredths (0.95 is 95), so every comparison the     *)
(* code makes on floats is exact here.                                     *)
(***************************************************************************)
EXTENDS Integers, Sequences, FiniteSets, TLC

(***************************************************************************)
(* Bounds of the model.                                                    *)
(***************************************************************************)
MaxCyclesBound == 4

\* A coordinator is run again while the trajectory it carries has at most
\* this many entries.
MaxCarriedCycles == 1

(***************************************************************************)
(* Inputs: the run configuration and what the analyzers may answer.        *)
(***************************************************************************)
Strategies == {"sequential", "parallel", "adaptive", "iterative_deepening"}

Thresholds == {0, 85}

TimeLimits == {0, 300}

\* end_time - start_time of one cycle, in whole seconds: two readings of
\* time.time() that do not differ (a cycle shorter than the resolution of
\* the clock), and a cycle of 200 seconds.
Durations == {0, 200}

ErrorMessages == {"boom"}

ResultOrder == <<"classification", "architecture", "dependencies", "context">>

Analyzers == {ResultOrder[i] : i \in 1..Len(ResultOrder)}

NoPatterns == << >>

\* asdict(ClassificationResult): an unsure answer on a complex project, a
\* sure one on a simple project.
ClassificationPayloads ==
    {[project_type |-> "brownfield", confidence |-> 30, complexity_score |-> 8],
     [project_type |-> "greenfield", confidence |-> 95, complexity_score |-> 5]}

\* asdict(ArchitectureDetection).
ArchitecturePayloads ==
    {[primary_pattern |-> "monolith", secondary_patterns |-> NoPatterns,
      confidence |-> 95, framework |-> "django"]}

\* The dict map_dependencies returns.
DependencyPayloads ==
    {[summary |-> [total_direct_dependencies |-> 2,
                   total_transitive_dependencies |-> 3,
                   vulnerability_count |-> 1]]}

\* asdict(HistoricalContext).
ContextPayloads ==
    {[total_commits |-> 20, bus_factor |-> 1]}

Payloads(a) ==
    CASE a = "classification" -> ClassificationPayloads
      [] a = "architecture" -> ArchitecturePayloads
      [] a = "dependencies" -> DependencyPayloads
      [] a = "context" -> ContextPayloads

\* What one awaited analyzer call does: it returns a payload or raises.
Outcomes(a) ==
    {[raised |-> FALSE, value |-> p] : p \in Payloads(a)}
    \cup {[raised |-> TRUE, value |-> m] : m \in ErrorMessages}

(***************************************************************************)
(* Dictionaries.                                                           *)
(***************************************************************************)
EmptyDict == [k \in {} |-> 0]

Get(d, k, default) == IF k \in DOMAIN d THEN d[k] ELSE default

Put(d, k, v) == [x \in DOMAIN d \cup {k} |-> IF x = k THEN v ELSE d[x]]

RECURSIVE SumSeq(_)
SumSeq(s) == IF s = << >> THEN 0 ELSE Head(s) + SumSeq(Tail(s))

\* The values of a dict over analyzer names, in insertion order.
Keys(d) == SelectSeq(ResultOrder, LAMBDA a : a \in DOMAIN d)

Values(d) == [i \in 1..Len(Keys(d)) |-> d[Keys(d)[i]]]

VARIABLES
    strategy,               \* analysis_strategy argument
    max_cycles,             \* config.max_cycles
    min_confidence_threshold, \* config.min_confidence_threshold (hundredths)
    time_limit_seconds,     \* config.time_limit_seconds
    project_usable,         \* whether project_path exists and is readable
    pc,                     \* position of the coroutine
    exception,              \* the exception the run ended with, or "none"
    accumulated_knowledge,  \* self.accumulated_knowledge
    insights,               \* self.insights
    uncertainty_areas,      \* self.uncertainty_areas
    confidence_trajectory,  \* self.confidence_trajectory
    analysis_history,       \* self.analysis_history
    cycle_results,          \* local list of _execute_analysis_cycles
    current_cycle,          \* local counter of _execute_analysis_cycles
    should_continue,        \* local flag of _execute_analysis_cycles
    stop_reason,            \* what _should_continue_analysis logged last
    results,                \* result map being built by the running pass
    quick_results,          \* quick pass of _execute_iterative_deepening
    pass,                   \* "main", "quick" or "deep"
    pending,                \* tasks of asyncio.gather not finished yet
    task_results,           \* what the finished tasks of the gather gave
    invoked,                \* per cycle, the analyzers called, in call order
    best_results,           \* best_results of _consolidate_results
    final_insights,         \* final_insights of coordinate_multi_cycle_analysis
    analysis_quality        \* analysis_quality of the consolidated report

vars == <<strategy, max_cycles, min_confidence_threshold, time_limit_seconds,
          project_usable, pc, exception, accumulated_knowledge, insights,
          uncertainty_areas, confidence_trajectory, analysis_history,
          cycle_results, current_cycle, should_continue, stop_reason,
          results, quick_results, pass, pending, task_results, invoked,
          best_results, final_insights, analysis_quality>>

config == <<strategy, max_cycles, min_confidence_threshold,
            time_limit_seconds, project_usable>>

(***************************************************************************)
(* Cycle planning.                                                         *)
(***************************************************************************)
cycle_sequence ==
    <<"initial_scan", "deep_analysis", "context_aware", "optimization",
      "validation">>

_determine_cycle_type(cycle_number) ==
    IF cycle_number <= Len(cycle_sequence)
    THEN cycle_sequence[cycle_number]
    ELSE "optimization"

\* config.analysis_depth_per_cycle keeps its default, "increasing".
AnalysisDepth(cycle_number) ==
    IF cycle_number = 1 THEN "quick"
    ELSE IF cycle_number >= 3 THEN "deep" ELSE "standard"

\* Cycle parameters whose deep analysis enables the history without the
\* dependencies.
ParametersWithHistoryAlone(cycle_number, cycle_type, depth) ==
    [cycle_number |-> cycle_number, cycle_type |-> cycle_type,
     analysis_depth |-> depth, use_cached_results |-> cycle_number > 1,
     previous_knowledge |-> cycle_number > 1]
    @@
    CASE cycle_type = "initial_scan" ->
            [include_dependencies |-> FALSE, include_history |-> FALSE,
             quick_mode |-> TRUE]
      [] cycle_type = "deep_analysis" ->
            [include_dependencies |-> FALSE, include_history |-> TRUE,
             include_transitive |-> TRUE]
      [] cycle_type = "context_aware" ->
            [include_developer_profiles |-> TRUE, framework_specific |-> TRUE,
             check_patterns |-> TRUE]
      [] cycle_type = "optimization" ->
            [check_vulnerabilities |-> TRUE, check_licenses |-> TRUE,
             optimization_focus |-> TRUE]
      [] cycle_type = "validation" ->
            [validation_mode |-> TRUE, cross_check_results |-> TRUE,
             consistency_check |-> TRUE]

\* config.cache_results keeps its default, True.  previous_knowledge is a
\* reference to self.accumulated_knowledge (TRUE) or None (FALSE).
_prepare_cycle_parameters(cycle_number, cycle_type, depth) ==
    [cycle_number |-> cycle_number, cycle_type |-> cycle_type,
     analysis_depth |-> depth, use_cached_results |-> cycle_number > 1,
     previous_knowledge |-> cycle_number > 1]
    @@
    CASE cycle_type = "initial_scan" ->
            [include_dependencies |-> FALSE, include_history |-> FALSE,
             quick_mode |-> TRUE]
      [] cycle_type = "deep_analysis" ->
            [include_dependencies |-> TRUE, include_history |-> TRUE,
             include_transitive |-> TRUE]
      [] cycle_type = "context_aware" ->
            [include_developer_profiles |-> TRUE, framework_specific |-> TRUE,
             check_patterns |-> TRUE]
      [] cycle_type = "optimization" ->
            [check_vulnerabilities |-> TRUE, check_licenses |-> TRUE,
             optimization_focus |-> TRUE]
      [] cycle_type = "validation" ->
            [validation_mode |-> TRUE, cross_check_results |-> TRUE,
             consistency_check |-> TRUE]

CycleParams(cycle_number) ==
    _prepare_cycle_parameters(cycle_number, _determine_cycle_type(cycle_number),
                              AnalysisDepth(cycle_number))

(***************************************************************************)
(* Confidence Scorer.                                                      *)
(***************************************************************************)
\* Every entry of a result map is a dict: asdict of a dataclass, the dict
\* map_dependencies returns, or the marker {"error": str(e)}.
IsDict(result) == DOMAIN result \subseteq STRING

ScoreOf(result) ==
    IF IsDict(result)
    THEN IF "confidence" \in DOMAIN result THEN result["confidence"]
         ELSE IF "project_type" \in DOMAIN result
              THEN Get(result, "confidence_score", 50)
         ELSE IF "primary_pattern" \in DOMAIN result
              THEN Get(result, "confidence", 50)
         ELSE IF "summary" \in DOMAIN result
              THEN IF /\ Get(result["summary"], "total_direct_dependencies", 0) > 0
                      /\ Get(result["summary"], "total_transitive_dependencies", 0) > 0
                   THEN 80 ELSE 30
         ELSE IF "total_commits" \in DOMAIN result
              THEN IF result["total_commits"] > 10 THEN 70 ELSE 40
         ELSE 50
    ELSE 0

\* The scorer leaving out the analyzers that failed.
ScoresOfSuccessesOnly(res) ==
    [a \in {x \in DOMAIN res : "error" \notin DOMAIN res[x]} |-> ScoreOf(res[a])]

_calculate_confidence_scores(res) == [a \in DOMAIN res |-> ScoreOf(res[a])]

(***************************************************************************)
(* Insight Extractor.  A description is the text of the f-string with the  *)
(* value it embeds.                                                        *)
(***************************************************************************)
AnalysisInsight(type, description, confidence, cycle_number, impact) ==
    [insight_type |-> type, description |-> description,
     confidence |-> confidence, cycle_discovered |-> cycle_number,
     impact_level |-> impact]

_extract_cycle_insights(res, cycle_number) ==
    (IF /\ "classification" \in DOMAIN res
        /\ Get(res["classification"], "complexity_score", 0) > 7
     THEN <<AnalysisInsight("complexity",
              <<"High complexity project", res["classification"]["complexity_score"]>>,
              80, cycle_number, "high")>>
     ELSE << >>)
    \o
    (IF /\ "architecture" \in DOMAIN res
        /\ Len(Get(res["architecture"], "secondary_patterns", << >>)) > 2
     THEN <<AnalysisInsight("architecture",
              <<"Multiple architectural patterns detected">>
                  \o res["architecture"]["secondary_patterns"],
              70, cycle_number, "medium")>>
     ELSE << >>)
    \o
    (IF /\ "dependencies" \in DOMAIN res
        /\ Get(Get(res["dependencies"], "summary", EmptyDict),
               "vulnerability_count", 0) > 0
     THEN <<AnalysisInsight("security",
              <<"Found potential security vulnerabilities",
                res["dependencies"]["summary"]["vulnerability_count"]>>,
              90, cycle_number, "critical")>>
     ELSE << >>)
    \o
    (IF /\ "context" \in DOMAIN res
        /\ Get(res["context"], "bus_factor", 1) <= 1
     THEN <<AnalysisInsight("risk", <<"Low bus factor">>, 80, cycle_number,
                            "high")>>
     ELSE << >>)

(***************************************************************************)
(* Uncertainty Tracker.                                                    *)
(***************************************************************************)
UncertaintiesOf(analysis_type, result) ==
    (IF Get(result, "confidence", 50) < 70
     THEN <<<<"Low confidence in", analysis_type>>>> ELSE << >>)
    \o
    (IF "error" \in DOMAIN result
     THEN <<<<"Error in", analysis_type, result["error"]>>>> ELSE << >>)
    \o
    (IF /\ analysis_type = "dependencies"
        /\ Get(Get(result, "summary", EmptyDict),
               "total_direct_dependencies", 0) = 0
     THEN <<<<"No dependencies detected">>>> ELSE << >>)
    \o
    (IF /\ analysis_type = "context"
        /\ Get(result, "total_commits", 0) = 0
     THEN <<<<"No git history available">>>> ELSE << >>)

RECURSIVE UncertaintiesFrom(_, _)
UncertaintiesFrom(res, keys) ==
    IF keys = << >> THEN << >>
    ELSE UncertaintiesOf(Head(keys), res[Head(keys)])
         \o UncertaintiesFrom(res, Tail(keys))

_identify_cycle_uncertainties(res) == UncertaintiesFrom(res, Keys(res))

(***************************************************************************)
(* Termination Evaluator.                                                  *)
(***************************************************************************)
\* sum(latest.values()) / len(latest) >= threshold, in hundredths.  An empty
\* latest map makes the division raise ZeroDivisionError.
_is_confidence_threshold_met(trajectory, threshold) ==
    IF trajectory = << >> THEN FALSE
    ELSE LET latest_scores == trajectory[Len(trajectory)]
         IN  SumSeq(Values(latest_scores))
                >= threshold * Len(Values(latest_scores))

\* The evaluator with the cycle cap checked before the confidence threshold.
StopReasonCapFirst(cycle_result, trajectory, limit, threshold, maxc) ==
    IF cycle_result.duration > limit THEN "time limit"
    ELSE IF cycle_result.cycle_number >= maxc THEN "max cycles"
    ELSE IF _is_confidence_threshold_met(trajectory, threshold)
         THEN "confidence threshold"
    ELSE IF /\ Len(cycle_result.insights_discovered) = 0
            /\ cycle_result.cycle_number > 2
         THEN "no new insights"
    ELSE "none"

\* The message _should_continue_analysis logs, "none" when it returns True.
StopReason(cycle_result, trajectory, limit, threshold, maxc) ==
    IF cycle_result.duration > limit THEN "time limit"
    ELSE IF _is_confidence_threshold_met(trajectory, threshold)
         THEN "confidence threshold"
    ELSE IF cycle_result.cycle_number >= maxc THEN "max cycles"
    ELSE IF /\ Len(cycle_result.insights_discovered) = 0
            /\ cycle_result.cycle_number > 2
         THEN "no new insights"
    ELSE "none"

_should_continue_analysis(cycle_result, trajectory, limit, threshold, maxc) ==
    StopReason(cycle_result, trajectory, limit, threshold, maxc) = "none"

(***************************************************************************)
(* Cycle Executor.                                                         *)
(***************************************************************************)
\* try: results[key] = <payload>  except Exception as e: {"error": str(e)}
ResultOf(outcome) ==
    IF outcome.raised THEN [error |-> outcome.value] ELSE outcome.value

\* A pass that also maps the dependencies when the cycle asks for the
\* vulnerability check.
SequentialPlanWithVulnerabilityScan(params) ==
    SelectSeq(ResultOrder, LAMBDA a :
        \/ a \in {"classification", "architecture"}
        \/ a = "dependencies" /\ Get(params, "include_dependencies", FALSE)
        \/ a = "dependencies" /\ Get(params, "check_vulnerabilities", FALSE)
        \/ a = "context" /\ Get(params, "include_history", FALSE))

\* The analyzers _execute_sequential_analysis calls under params.
SequentialPlan(params) ==
    SelectSeq(ResultOrder, LAMBDA a :
        \/ a \in {"classification", "architecture"}
        \/ a = "dependencies" /\ Get(params, "include_dependencies", FALSE)
        \/ a = "context" /\ Get(params, "include_history", FALSE))

\* The analyzers _execute_adaptive_analysis calls: it stops after the
\* architecture ("Continue with other analyses...").
AdaptivePlan(params) == <<"classification", "architecture">>

Plan(strat, params) ==
    IF strat = "adaptive" THEN AdaptivePlan(params) ELSE SequentialPlan(params)

\* The coroutines _execute_parallel_analysis hands to asyncio.gather.
ParallelTasks(params) ==
    <<"classification", "architecture">>
    \o (IF Get(params, "include_dependencies", FALSE)
        THEN <<"dependencies">> ELSE << >>)
    \o (IF Get(params, "include_history", FALSE)
        THEN <<"context">> ELSE << >>)

\* The gather without return_exceptions: one raising task aborts the batch
\* and the except clause leaves the result map empty.
GatherResultsAborting(gathered) ==
    IF \E i \in DOMAIN gathered : gathered[i].raised THEN EmptyDict
    ELSE [k \in {ResultOrder[i] : i \in DOMAIN gathered \cap 1..Len(ResultOrder)} |->
            LET i == CHOOSE j \in DOMAIN gathered : ResultOrder[j] = k
            IN  ResultOf(gathered[i])]

\* for i, result in enumerate(task_results): results[result_keys[i]] = ...
GatherResults(gathered) ==
    [k \in {ResultOrder[i] : i \in DOMAIN gathered \cap 1..Len(ResultOrder)} |->
        LET i == CHOOSE j \in DOMAIN gathered : ResultOrder[j] = k
        IN  ResultOf(gathered[i])]

\* previous_results = params["previous_knowledge"].get("cycle_results", {})
PreviousResults(params, knowledge) ==
    IF params["previous_knowledge"]
    THEN Get(knowledge, <<"cycle_results">>, EmptyDict)
    ELSE EmptyDict

SkipAnalysis(a, params, knowledge, cycle_number) ==
    /\ params["previous_knowledge"]
    /\ Get(Get(PreviousResults(params, knowledge), a, EmptyDict),
           "confidence", 0) > 90
    /\ cycle_number > 1

\* The entries _execute_adaptive_analysis takes from the knowledge store.
AdaptiveCached(params, knowledge, cycle_number) ==
    [a \in {x \in {"classification", "architecture"} :
                SkipAnalysis(x, params, knowledge, cycle_number)} |->
        Put(PreviousResults(params, knowledge)[a], "from_cache", TRUE)]

\* results[...] is the object stored in the knowledge store, so tagging it
\* tags the stored one too.
AdaptiveAliased(params, knowledge, cycle_number) ==
    IF AdaptiveCached(params, knowledge, cycle_number) = EmptyDict
    THEN knowledge
    ELSE [knowledge EXCEPT ![<<"cycle_results">>] =
            AdaptiveCached(params, knowledge, cycle_number) @@ @]

\* Merge of _execute_iterative_deepening.
MergeDeepening(quick, deep) ==
    [key \in DOMAIN quick |->
        IF /\ key \in DOMAIN deep
           /\ Get(deep[key], "confidence", 0) > Get(quick[key], "confidence", 0)
        THEN deep[key] ELSE quick[key]]

(***************************************************************************)
(* Consolidation.                                                          *)
(***************************************************************************)
_is_better_result(new_result, existing_result) ==
    Get(new_result, "confidence", 0) > Get(existing_result, "confidence", 0)

MergeCycle(best, res) ==
    [a \in DOMAIN best \cup DOMAIN res |->
        IF a \in DOMAIN res
           /\ (a \notin DOMAIN best \/ _is_better_result(res[a], best[a]))
        THEN res[a] ELSE best[a]]

\* best_results of _consolidate_results.
RECURSIVE _consolidate_results(_)
_consolidate_results(cycles) ==
    IF cycles = << >> THEN EmptyDict
    ELSE LET n == Len(cycles)
         IN  MergeCycle(_consolidate_results(SubSeq(cycles, 1, n - 1)),
                        cycles[n].results)

expected_analyses == ResultOrder

\* overall_confidence is kept as the sum and the count it divides;
\* completeness_score is in hundredths.
_calculate_analysis_quality(best) ==
    [overall_confidence |->
        [sum |-> SumSeq([i \in 1..Len(Keys(best)) |->
                            Get(best[Keys(best)[i]], "confidence", 50)]),
         count |-> Len(Keys(best))],
     completeness_score |->
        (Len(SelectSeq(expected_analyses, LAMBDA a :
                a \in DOMAIN best /\ "error" \notin DOMAIN best[a])) * 100)
            \div Len(expected_analyses)]

(***************************************************************************)
(* Final insights.                                                         *)
(***************************************************************************)
\* The names the module binds at import time (lines 8-22).
ModuleNames ==
    {"asyncio", "json", "time", "Path", "Dict", "List", "Optional", "Tuple",
     "Any", "Set", "Callable", "dataclass", "asdict", "Enum", "logging",
     "datetime", "timedelta", "traceback", "ProjectClassifier",
     "ClassificationResult", "ArchitectureDetector", "ArchitectureDetection",
     "DependencyMapper", "DependencyMapper", "ContextAnalyzer",
     "HistoricalContext"}

\* The insight types in order of first appearance (the keys of insight_groups).
RECURSIVE InsightTypes(_)
InsightTypes(all) ==
    IF all = << >> THEN << >>
    ELSE LET rest == InsightTypes(SubSeq(all, 1, Len(all) - 1))
             t == all[Len(all)].insight_type
         IN  IF \E i \in DOMAIN rest : rest[i] = t THEN rest
             ELSE Append(rest, t)

\* max(type_insights, key=lambda x: x.confidence): the first of the maxima.
BestOfType(all, t) ==
    LET group == SelectSeq(all, LAMBDA x : x.insight_type = t)
        i == CHOOSE j \in DOMAIN group :
                /\ \A k \in DOMAIN group : group[k].confidence <= group[j].confidence
                /\ \A k \in 1..(j - 1) : group[k].confidence < group[j].confidence
    IN  group[i]

\* What the call gives: the exception it raises or the list it returns.
_generate_final_insights(all, history) ==
    LET high_impact == SelectSeq(all, LAMBDA x :
                            x.impact_level \in {"high", "critical"})
        best == [i \in 1..Len(InsightTypes(all)) |->
                    BestOfType(all, InsightTypes(all)[i])]
    IN  IF "defaultdict" \notin ModuleNames
        THEN [raised |-> TRUE, value |-> "NameError"]
        ELSE IF high_impact # << >> /\ history = << >>
        THEN [raised |-> TRUE, value |-> "ValueError"]
        ELSE IF high_impact # << >>
        THEN [raised |-> FALSE,
              value |-> <<AnalysisInsight("summary",
                            <<"Found high-impact insights", Len(high_impact)>>,
                            100, history[Len(history)].cycle_number, "high")>>
                        \o best]
        ELSE [raised |-> FALSE, value |-> best]

(***************************************************************************)
(* Setup.                                                                  *)
(***************************************************************************)
\* iterdir raises on a missing or unreadable path and os.walk raises
\* NameError (os is not imported); both are caught and logged.
_get_project_structure(usable) ==
    [root_listed |-> usable, total_files |-> 0, total_dirs |-> 0,
     warning_logged |-> TRUE]

(***************************************************************************)
(* Summary.                                                                *)
(***************************************************************************)
\* The counts of get_analysis_summary.
get_analysis_summary(history, all_insights, uncertainties) ==
    [total_cycles_executed |-> Len(history),
     total_insights_discovered |-> Len(all_insights),
     uncertainty_areas_count |-> Cardinality(uncertainties)]

(***************************************************************************)
(* The run.                                                                *)
(***************************************************************************)
\* A fresh coordinator and the arguments of one run.  The project location
\* is read by Setup alone, so an unusable location is explored on
\* single-cycle runs.  The time limit is read by the Termination Evaluator
\* alone, which does not read the strategy, so the positive limit is
\* explored under one strategy, the one with the shortest cycles.
Init ==
    /\ strategy \in Strategies
    /\ max_cycles \in 1..MaxCyclesBound
    /\ min_confidence_threshold \in Thresholds
    /\ time_limit_seconds \in TimeLimits
    /\ project_usable \in BOOLEAN
    /\ ~project_usable => max_cycles = 1
    /\ strategy # "adaptive" => time_limit_seconds = 0
    /\ pc = "start"
    /\ exception = "none"
    /\ accumulated_knowledge = EmptyDict
    /\ insights = << >>
    /\ uncertainty_areas = {}
    /\ confidence_trajectory = << >>
    /\ analysis_history = << >>
    /\ cycle_results = << >>
    /\ current_cycle = 0
    /\ should_continue = TRUE
    /\ stop_reason = "none"
    /\ results = EmptyDict
    /\ quick_results = EmptyDict
    /\ pass = "main"
    /\ pending = {}
    /\ task_results = EmptyDict
    /\ invoked = << >>
    /\ best_results = EmptyDict
    /\ final_insights = << >>
    /\ analysis_quality = EmptyDict

\* The loop condition with the cycle cap off by one.
LoopConditionOffByOne(cont, cycle, maxc) == cont /\ cycle + 1 < maxc

\* while should_continue and current_cycle < self.config.max_cycles
LoopCondition(cont, cycle, maxc) == cont /\ cycle < maxc

\* coordinate_multi_cycle_analysis up to the call of _execute_analysis_cycles.
Setup ==
    /\ pc = "start"
    /\ accumulated_knowledge' =
         (<<"project_path">> :> "path")
         @@ (<<"analysis_start">> :> "now")
         @@ (<<"project_structure">> :> _get_project_structure(project_usable))
    /\ cycle_results' = << >>
    /\ current_cycle' = 0
    /\ should_continue' = TRUE
    /\ pc' = "loop"
    /\ UNCHANGED <<config, exception, insights, uncertainty_areas,
                   confidence_trajectory, analysis_history, stop_reason,
                   results, quick_results, pass, pending, task_results,
                   invoked, best_results, final_insights, analysis_quality>>

\* One more turn of the while loop, up to the first await of the cycle.
BeginCycle ==
    /\ pc = "loop"
    /\ LoopCondition(should_continue, current_cycle, max_cycles)
    /\ current_cycle' = current_cycle + 1
    /\ LET params == CycleParams(current_cycle + 1)
       IN  /\ results' =
                IF strategy = "adaptive"
                THEN AdaptiveCached(params, accumulated_knowledge,
                                    current_cycle + 1)
                ELSE EmptyDict
           /\ accumulated_knowledge' =
                IF strategy = "adaptive"
                THEN AdaptiveAliased(params, accumulated_knowledge,
                                     current_cycle + 1)
                ELSE accumulated_knowledge
           /\ pending' = IF strategy = "parallel"
                         THEN DOMAIN ParallelTasks(params) ELSE {}
           /\ invoked' = Append(invoked,
                                IF strategy = "parallel"
                                THEN ParallelTasks(params) ELSE << >>)
    /\ pass' = IF strategy = "iterative_deepening" THEN "quick" ELSE "main"
    /\ quick_results' = EmptyDict
    /\ task_results' = EmptyDict
    /\ pc' = IF strategy = "parallel" THEN "gather" ELSE "analyze"
    /\ UNCHANGED <<config, exception, insights, uncertainty_areas,
                   confidence_trajectory, analysis_history, cycle_results,
                   should_continue, stop_reason, best_results,
                   final_insights, analysis_quality>>

\* The parameters of the pass that is running.
PassParams ==
    IF pass = "main" THEN CycleParams(current_cycle)
    ELSE [CycleParams(current_cycle) EXCEPT !["analysis_depth"] = pass]

\* A pass that gives up at the first analyzer that raised.
RemainingUntilFailure ==
    IF \E a \in DOMAIN results : "error" \in DOMAIN results[a] THEN << >>
    ELSE SelectSeq(Plan(strategy, PassParams), LAMBDA a : a \notin DOMAIN results)

\* The analyzers the running pass has still to call, in call order.
Remaining ==
    SelectSeq(Plan(strategy, PassParams), LAMBDA a : a \notin DOMAIN results)

\* One awaited analyzer call of a sequential pass: it returns or raises,
\* and either way the pass goes on.
Invoke ==
    /\ pc = "analyze"
    /\ Remaining # << >>
    /\ LET a == Head(Remaining)
       IN  /\ \E o \in Outcomes(a) : results' = Put(results, a, ResultOf(o))
           /\ invoked' = [invoked EXCEPT ![Len(invoked)] = Append(@, a)]
    /\ UNCHANGED <<config, pc, exception, accumulated_knowledge, insights,
                   uncertainty_areas, confidence_trajectory, analysis_history,
                   cycle_results, current_cycle, should_continue, stop_reason,
                   quick_results, pass, pending, task_results, best_results,
                   final_insights, analysis_quality>>

\* One task of the gather finishes: it returned or raised.
CompleteTask ==
    /\ pc = "gather"
    /\ \E i \in pending :
         /\ \E o \in Outcomes(ParallelTasks(CycleParams(current_cycle))[i]) :
               task_results' = Put(task_results, i, o)
         /\ pending' = pending \ {i}
    /\ UNCHANGED <<config, pc, exception, accumulated_knowledge, insights,
                   uncertainty_areas, confidence_trajectory, analysis_history,
                   cycle_results, current_cycle, should_continue, stop_reason,
                   results, quick_results, pass, invoked, best_results,
                   final_insights, analysis_quality>>

\* _execute_iterative_deepening after the quick pass, when it found
\* uncertainties: the deep pass starts.
StartDeepPass ==
    /\ pc = "analyze"
    /\ pass = "quick"
    /\ Remaining = << >>
    /\ _identify_cycle_uncertainties(results) # << >>
    /\ quick_results' = results
    /\ results' = EmptyDict
    /\ pass' = "deep"
    /\ UNCHANGED <<config, pc, exception, accumulated_knowledge, insights,
                   uncertainty_areas, confidence_trajectory, analysis_history,
                   cycle_results, current_cycle, should_continue, stop_reason,
                   pending, task_results, invoked, best_results,
                   final_insights, analysis_quality>>

\* An executor that leaves out the analyzers that raised.
ExecutorResultsWithoutFailures ==
    LET res == IF strategy = "parallel" THEN GatherResults(task_results)
               ELSE IF pass = "deep" THEN MergeDeepening(quick_results, results)
               ELSE results
    IN  [a \in {x \in DOMAIN res : "error" \notin DOMAIN res[x]} |-> res[a]]

\* The result map the strategy's executor returns for the cycle.
ExecutorResults ==
    IF strategy = "parallel" THEN GatherResults(task_results)
    ELSE IF pass = "deep" THEN MergeDeepening(quick_results, results)
    ELSE results

ExecutorDone ==
    \/ pc = "gather" /\ pending = {}
    \/ /\ pc = "analyze"
       /\ Remaining = << >>
       /\ pass = "quick" => _identify_cycle_uncertainties(results) = << >>

AnalysisCycleResult(cycle_number, res, duration) ==
    [cycle_number |-> cycle_number,
     cycle_type |-> _determine_cycle_type(cycle_number),
     duration |-> duration,
     results |-> res,
     confidence_scores |-> _calculate_confidence_scores(res),
     insights_discovered |->
        [i \in 1..Len(_extract_cycle_insights(res, cycle_number)) |->
            _extract_cycle_insights(res, cycle_number)[i].description],
     uncertainty_areas |-> _identify_cycle_uncertainties(res)]

\* A store that keeps the last cycle only.
KnowledgeOfLastCycleOnly(knowledge, cycle_result) ==
    [k \in {x \in DOMAIN knowledge : x[1] # "cycle_"}
          \cup {<<"cycle_", cycle_result.cycle_number>>} |->
        IF k = <<"cycle_", cycle_result.cycle_number>>
        THEN [results |-> cycle_result.results,
              confidence_scores |-> cycle_result.confidence_scores,
              insights |-> cycle_result.insights_discovered]
        ELSE knowledge[k]]

\* A loop body that leaves the merge of the cycle for later.
KnowledgeNotYetMerged(knowledge, cycle_result) == knowledge

\* _update_accumulated_knowledge: the store gets the entry cycle_<n>.
KnowledgeWith(knowledge, cycle_result) ==
    Put(knowledge, <<"cycle_", cycle_result.cycle_number>>,
        [results |-> cycle_result.results,
         confidence_scores |-> cycle_result.confidence_scores,
         insights |-> cycle_result.insights_discovered])

\* A loop that leaves at the cycle cap before it updates the set.
UpdateUnlessAtTheCap(areas, cycle_result) ==
    IF cycle_result.cycle_number >= max_cycles THEN areas
    ELSE areas \cup {cycle_result.uncertainty_areas[i] :
                        i \in DOMAIN cycle_result.uncertainty_areas}

\* for uncertainty in cycle_result.uncertainty_areas: self....add(uncertainty)
_update_uncertainty_areas(areas, cycle_result) ==
    areas \cup {cycle_result.uncertainty_areas[i] :
                  i \in DOMAIN cycle_result.uncertainty_areas}

\* An insight list that takes an insight only if it holds none of the same
\* kind and description.
ExtendInsightsDeduplicated(all, new) ==
    all \o SelectSeq(new, LAMBDA x :
                ~\E j \in DOMAIN all :
                    /\ all[j].insight_type = x.insight_type
                    /\ all[j].description = x.description)

\* self.insights.extend(insights)
ExtendInsights(all, new) == all \o new

\* The rest of _execute_single_cycle once the executor returned, and the
\* rest of the loop body of _execute_analysis_cycles: score, extract
\* insights and uncertainties, append the cycle result, update the
\* knowledge store and the trajectory, ask whether to continue, update
\* the run-wide uncertainty set.
FinishCycle ==
    /\ ExecutorDone
    /\ \E duration \in Durations :
         LET cycle_result ==
                AnalysisCycleResult(current_cycle, ExecutorResults, duration)
             trajectory ==
                Append(confidence_trajectory, cycle_result.confidence_scores)
             divides_by_zero ==
                /\ cycle_result.duration <= time_limit_seconds
                /\ DOMAIN cycle_result.confidence_scores = {}
         IN  /\ insights' =
                    ExtendInsights(insights,
                        _extract_cycle_insights(ExecutorResults, current_cycle))
             /\ cycle_results' = Append(cycle_results, cycle_result)
             /\ accumulated_knowledge' =
                    KnowledgeWith(accumulated_knowledge, cycle_result)
             /\ confidence_trajectory' = trajectory
             /\ IF divides_by_zero
                THEN /\ pc' = "raised"
                     /\ exception' = "ZeroDivisionError"
                     /\ UNCHANGED <<should_continue, stop_reason,
                                    uncertainty_areas>>
                ELSE /\ pc' = "loop"
                     /\ exception' = exception
                     /\ should_continue' =
                          _should_continue_analysis(cycle_result, trajectory,
                              time_limit_seconds, min_confidence_threshold,
                              max_cycles)
                     /\ stop_reason' =
                          StopReason(cycle_result, trajectory,
                              time_limit_seconds, min_confidence_threshold,
                              max_cycles)
                     /\ uncertainty_areas' =
                          _update_uncertainty_areas(uncertainty_areas,
                                                    cycle_result)
    /\ results' = EmptyDict
    /\ quick_results' = EmptyDict
    /\ task_results' = EmptyDict
    /\ pass' = "main"
    /\ UNCHANGED <<config, analysis_history, current_cycle, pending, invoked,
                   best_results, final_insights, analysis_quality>>

\* The loop is left: the rest of coordinate_multi_cycle_analysis.  The
\* results are consolidated, then the final insights are asked for; an
\* exception is logged and re-raised by the except clause.
FinishRun ==
    /\ pc = "loop"
    /\ ~LoopCondition(should_continue, current_cycle, max_cycles)
    /\ best_results' = _consolidate_results(cycle_results)
    /\ analysis_quality' =
         _calculate_analysis_quality(_consolidate_results(cycle_results))
    /\ LET final == _generate_final_insights(insights, analysis_history)
       IN  IF final.raised
           THEN /\ pc' = "raised"
                /\ exception' = final.value
                /\ final_insights' = << >>
           ELSE /\ pc' = "returned"
                /\ exception' = exception
                /\ final_insights' = final.value
    /\ UNCHANGED <<config, accumulated_knowledge, insights, uncertainty_areas,
                   confidence_trajectory, analysis_history, cycle_results,
                   current_cycle, should_continue, stop_reason, results,
                   quick_results, pass, pending, task_results, invoked>>

Next ==
    \/ Setup
    \/ BeginCycle
    \/ Invoke
    \/ CompleteTask
    \/ StartDeepPass
    \/ FinishCycle
    \/ FinishRun

Spec == Init /\ [][Next]_vars

\* A run has ended and the caller calls coordinate_multi_cycle_analysis
\* again on the same coordinator: the locals of the call are fresh, the
\* fields of the coordinator are what the run before left in them.
NewRun ==
    /\ pc \in {"raised", "returned"}
    /\ Len(confidence_trajectory) <= MaxCarriedCycles
    /\ pc' = "start"
    /\ exception' = "none"
    /\ cycle_results' = << >>
    /\ current_cycle' = 0
    /\ should_continue' = TRUE
    /\ stop_reason' = "none"
    /\ invoked' = << >>
    /\ best_results' = EmptyDict
    /\ final_insights' = << >>
    /\ analysis_quality' = EmptyDict
    /\ UNCHANGED <<config, accumulated_knowledge, insights, uncertainty_areas,
                   confidence_trajectory, analysis_history, results,
                   quick_results, pass, pending, task_results>>

\* A coordinator that is used for short runs, one after the other.
RerunInit ==
    /\ Init
    /\ max_cycles <= 2

RerunNext ==
    \/ Next
    \/ NewRun

RerunSpec == RerunInit /\ [][RerunNext]_vars

(***************************************************************************)
(* The Insight Extractor by itself, on the result maps a cycle can hand    *)
(* it: classification and architecture always, dependencies and context    *)
(* together or not at all, every entry a payload or an error marker.       *)
(***************************************************************************)
ExtractorClassifications ==
    {[project_type |-> "brownfield", confidence |-> 30, complexity_score |-> c] :
        c \in {5, 7, 8}}
    \cup {[error |-> m] : m \in ErrorMessages}

ExtractorArchitectures ==
    {[primary_pattern |-> "monolith", secondary_patterns |-> p,
      confidence |-> 95, framework |-> "django"] :
        p \in {NoPatterns, <<"mvc", "layered">>,
               <<"mvc", "layered", "plugin">>}}
    \cup {[error |-> m] : m \in ErrorMessages}

ExtractorDependencies ==
    {[summary |-> [total_direct_dependencies |-> 2,
                   total_transitive_dependencies |-> 3,
                   vulnerability_count |-> v]] : v \in {0, 1, 2}}
    \cup {[error |-> m] : m \in ErrorMessages}

ExtractorContexts ==
    {[total_commits |-> 20, bus_factor |-> b] : b \in {0, 1, 2}}
    \cup {[error |-> m] : m \in ErrorMessages}

ExtractorResultMaps ==
    {[classification |-> c, architecture |-> a] :
        c \in ExtractorClassifications, a \in ExtractorArchitectures}
    \cup
    {[classification |-> c, architecture |-> a, dependencies |-> d,
      context |-> x] :
        c \in ExtractorClassifications, a \in ExtractorArchitectures,
        d \in ExtractorDependencies, x \in ExtractorContexts}

ExtractorInit ==
    /\ strategy = "sequential"
    /\ max_cycles = MaxCyclesBound
    /\ min_confidence_threshold = 85
    /\ time_limit_seconds = 0
    /\ project_usable = TRUE
    /\ pc = "extract"
    /\ exception = "none"
    /\ accumulated_knowledge = EmptyDict
    /\ insights = << >>
    /\ uncertainty_areas = {}
    /\ confidence_trajectory = << >>
    /\ analysis_history = << >>
    /\ cycle_results = << >>
    /\ current_cycle \in 1..MaxCyclesBound
    /\ should_continue = TRUE
    /\ stop_reason = "none"
    /\ results \in ExtractorResultMaps
    /\ (DOMAIN results = Analyzers) = (current_cycle = 2)
    /\ quick_results = EmptyDict
    /\ pass = "main"
    /\ pending = {}
    /\ task_results = EmptyDict
    /\ invoked = << >>
    /\ best_results = EmptyDict
    /\ final_insights = << >>
    /\ analysis_quality = EmptyDict

\* insights = self._extract_cycle_insights(results, cycle_number)
Extract ==
    /\ pc = "extract"
    /\ insights' = _extract_cycle_insights(results, current_cycle)
    /\ pc' = "extracted"
    /\ UNCHANGED <<config, exception, accumulated_knowledge,
                   uncertainty_areas, confidence_trajectory, analysis_history,
                   cycle_results, current_cycle, should_continue, stop_reason,
                   results, quick_results, pass, pending, task_results,
                   invoked, best_results, final_insights, analysis_quality>>

ExtractorNext == Extract

ExtractorSpec == ExtractorInit /\ [][ExtractorNext]_vars

\* The steps the coroutine takes by itself are taken as soon as they can
\* be.  Invoke and CompleteTask are an awaited analyzer call returning or
\* raising: the calls are awaited bare (no asyncio.wait_for, no timeout
\* argument), so nothing makes one of them ever come back.
LiveSpec ==
    /\ Spec
    /\ WF_vars(Setup)
    /\ WF_vars(BeginCycle)
    /\ WF_vars(StartDeepPass)
    /\ WF_vars(FinishCycle)
    /\ WF_vars(FinishRun)

\* The same run with analyzers that always answer in the end.
ReturningSpec ==
    /\ LiveSpec
    /\ WF_vars(Invoke)
    /\ WF_vars(CompleteTask)

(***************************************************************************)
(* Properties.                                                             *)
(***************************************************************************)
RunEnded == pc \in {"raised", "returned"}

LoopLeft == pc = "loop" /\ ~LoopCondition(should_continue, current_cycle, max_cycles)

CycleDone == pc = "loop" /\ cycle_results # << >>

LastCycle == cycle_results[Len(cycle_results)]

SeqToSet(s) == {s[i] : i \in DOMAIN s}

RECURSIVE TotalOver(_, _)
TotalOver(f, S) ==
    IF S = {} THEN 0
    ELSE LET x == CHOOSE y \in S : TRUE IN f[x] + TotalOver(f, S \ {x})

\* C1: on a usable project location every run returns a result with the
\* consolidated report; it never ends in a run-level exception.
C1_RunNeverRaises ==
    project_usable => (pc # "raised" /\ exception = "none")

\* C2: with max_cycles >= 1 the cycle loop produces at least one and at
\* most max_cycles cycle results.
C2_CycleCountBounds ==
    /\ Len(cycle_results) <= max_cycles
    /\ (LoopLeft \/ RunEnded) => Len(cycle_results) >= 1

C2_Witness ==
    /\ RunEnded
    /\ max_cycles = 4
    /\ Len(cycle_results) = 3

\* The four terminal conditions, read off the cycle result that was just
\* appended.
TimeLimitHit == LastCycle.duration > time_limit_seconds

ThresholdMet ==
    TotalOver(LastCycle.confidence_scores, DOMAIN LastCycle.confidence_scores)
        >= min_confidence_threshold
            * Cardinality(DOMAIN LastCycle.confidence_scores)

MaxCyclesHit == LastCycle.cycle_number >= max_cycles

NoNewInsights ==
    LastCycle.cycle_number > 2 /\ LastCycle.insights_discovered = << >>

\* C3: after a cycle the run goes on to another cycle iff none of the four
\* terminal conditions holds, and the logged stop reason is the first that
\* holds in the order time limit, confidence threshold, max cycles, no new
\* insights.
C3_TerminationOrder ==
    CycleDone =>
        /\ ENABLED BeginCycle <=>
              ~(TimeLimitHit \/ ThresholdMet \/ MaxCyclesHit \/ NoNewInsights)
        /\ stop_reason =
              IF TimeLimitHit THEN "time limit"
              ELSE IF ThresholdMet THEN "confidence threshold"
              ELSE IF MaxCyclesHit THEN "max cycles"
              ELSE IF NoNewInsights THEN "no new insights"
              ELSE "none"

C3_Witness ==
    /\ CycleDone
    /\ stop_reason = "no new insights"
    /\ ~ENABLED BeginCycle

\* C4: an analyzer whose result is an error marker has confidence 0.0 in
\* the cycle's confidence_scores.
C4_ErrorScoresZero ==
    \A i \in DOMAIN cycle_results :
        \A a \in DOMAIN cycle_results[i].results :
            "error" \in DOMAIN cycle_results[i].results[a]
                => cycle_results[i].confidence_scores[a] = 0

\* The analyzers scheduled in cycle i: those called, and those served from
\* the knowledge store.
Scheduled(i) ==
    SeqToSet(invoked[i])
    \cup {a \in DOMAIN cycle_results[i].results :
            "from_cache" \in DOMAIN cycle_results[i].results[a]}

\* C5: in every cycle result confidence_scores has exactly one entry per
\* analyzer scheduled in the cycle, each in [0.0, 1.0].
C5_OneScorePerScheduled ==
    \A i \in DOMAIN cycle_results :
        /\ DOMAIN cycle_results[i].confidence_scores = Scheduled(i)
        /\ \A a \in Scheduled(i) :
              cycle_results[i].confidence_scores[a] \in 0..100

C5_Witness ==
    \E i \in DOMAIN cycle_results :
        /\ Scheduled(i) = Analyzers
        /\ "error" \in DOMAIN cycle_results[i].results["dependencies"]
        /\ "error" \notin DOMAIN cycle_results[i].results["context"]

\* C6: under the Adaptive strategy, when cycle 2 runs after a cycle 1 in
\* which an analyzer's confidence exceeded 0.9, cycle 2's result for it is
\* cycle 1's result tagged from_cache and the analyzer is not called in
\* cycle 2.
C6_AdaptiveReusesCache ==
    (strategy = "adaptive" /\ Len(cycle_results) >= 2) =>
        \A a \in DOMAIN cycle_results[1].confidence_scores :
            cycle_results[1].confidence_scores[a] > 90 =>
                /\ a \in DOMAIN cycle_results[2].results
                /\ cycle_results[2].results[a] =
                      Put(cycle_results[1].results[a], "from_cache", TRUE)
                /\ a \notin SeqToSet(invoked[2])

\* The dependency mapper was called and raised on every call.  Under the
\* sequential and the concurrent strategy a cycle calls it at most once
\* and keeps what the call gave.
DependencyMapperAlwaysRaised ==
    /\ strategy \in {"sequential", "parallel"}
    /\ \E i \in DOMAIN cycle_results :
          "dependencies" \in DOMAIN cycle_results[i].results
    /\ \A i \in DOMAIN cycle_results :
          "dependencies" \in DOMAIN cycle_results[i].results
              => "error" \in DOMAIN cycle_results[i].results["dependencies"]

\* C7: if the dependency mapper raises on every call the run still
\* completes, completeness_score is below 1.0 and the run-wide uncertainty
\* set holds an entry "error in dependencies: <message>".
C7_DependencyFailureIsolated ==
    (RunEnded /\ DependencyMapperAlwaysRaised) =>
        /\ pc = "returned"
        /\ analysis_quality.completeness_score < 100
        /\ \E m \in ErrorMessages :
              <<"Error in", "dependencies", m>> \in uncertainty_areas

\* C8: the final report holds, for every (kind, description) emitted in the
\* run, exactly one insight, with the highest confidence emitted for it.
C8_FinalInsightsDeduplicated ==
    RunEnded =>
        \A i \in DOMAIN insights :
            /\ Cardinality({j \in DOMAIN final_insights :
                  /\ final_insights[j].insight_type = insights[i].insight_type
                  /\ final_insights[j].description = insights[i].description})
                 = 1
            /\ \A j \in DOMAIN final_insights :
                  (/\ final_insights[j].insight_type = insights[i].insight_type
                   /\ final_insights[j].description = insights[i].description)
                      => final_insights[j].confidence >= insights[i].confidence

\* C9: for each analyzer consolidation selects a result whose confidence,
\* as scored in the cycle that produced it, is maximal over the run.
C9_BestOfAllCycles ==
    RunEnded =>
        \A a \in DOMAIN best_results :
            \E i \in DOMAIN cycle_results :
                /\ a \in DOMAIN cycle_results[i].results
                /\ cycle_results[i].results[a] = best_results[a]
                /\ \A j \in DOMAIN cycle_results :
                      a \in DOMAIN cycle_results[j].results =>
                          cycle_results[j].confidence_scores[a]
                              <= cycle_results[i].confidence_scores[a]

\* C10: on an unusable project location the run ends in a run-level failure
\* before cycle 1 starts and before any analyzer is called.
C10_SetupFailureIsFatal ==
    ~project_usable =>
        /\ current_cycle = 0
        /\ invoked = << >>
        /\ pc \in {"start", "raised"}

\* However a run ends, a dependency mapper that was called and always
\* raised leaves completeness below 1.0 and its error in the uncertainty set.
C7_EffectsOfDependencyFailure ==
    (RunEnded /\ DependencyMapperAlwaysRaised) =>
        /\ analysis_quality.completeness_score < 100
        /\ \E m \in ErrorMessages :
              <<"Error in", "dependencies", m>> \in uncertainty_areas

\* The analyzer calls the coroutine is suspended on.
Awaiting ==
    IF pc = "analyze" /\ Remaining # << >> THEN {Head(Remaining)}
    ELSE IF pc = "gather"
    THEN {ParallelTasks(CycleParams(current_cycle))[i] : i \in pending}
    ELSE {}

\* C11: an analyzer call that does not return cannot block its cycle
\* forever: whatever the analyzers do, every cycle that starts produces its
\* cycle result (with an error result for a call that timed out).
C11_HungCallCannotBlock ==
    \A n \in 1..MaxCyclesBound :
        (current_cycle = n) ~> (Len(cycle_results) >= n)

\* With analyzers that always answer, every cycle that starts ends: the
\* only way a cycle stays open is an awaited call that never comes back.
C11_CycleEndsWhenCallsReturn ==
    \A n \in 1..MaxCyclesBound :
        (current_cycle = n) ~> (Len(cycle_results) >= n)

\* The calls the concurrent executor dispatched in the running cycle.
Dispatched == ParallelTasks(CycleParams(current_cycle))

\* C12: under the Concurrent strategy, in whatever order the calls finish,
\* the executor returns only when every dispatched call has returned or
\* raised, and the result map has exactly one entry per dispatched
\* analyzer: the payload it returned or an error marker for what it raised.
C12_GatherFansInEverything ==
    [][(strategy = "parallel" /\ pc = "gather" /\ pc' # "gather") =>
          /\ pending = {}
          /\ DOMAIN task_results = DOMAIN Dispatched
          /\ LET res == cycle_results'[Len(cycle_results')].results
             IN  /\ DOMAIN res = SeqToSet(Dispatched)
                 /\ \A i \in DOMAIN Dispatched :
                       res[Dispatched[i]] =
                          IF task_results[i].raised
                          THEN [error |-> task_results[i].value]
                          ELSE task_results[i].value]_vars

C12_Witness ==
    /\ strategy = "parallel"
    /\ Len(cycle_results) >= 2
    /\ DOMAIN cycle_results[2].results = Analyzers
    /\ "error" \in DOMAIN cycle_results[2].results["classification"]
    /\ "error" \in DOMAIN cycle_results[2].results["dependencies"]
    /\ cycle_results[2].results["architecture"] \in ArchitecturePayloads
    /\ cycle_results[2].results["context"] \in ContextPayloads

IsPrefix(s, t) == Len(s) <= Len(t) /\ SubSeq(t, 1, Len(s)) = s

\* The calls the spec asks of a sequential cycle: the fixed order, the last
\* two gated on the cycle parameters.
SequentialOrder(cycle_number) ==
    <<"classification", "architecture">>
    \o (IF Get(CycleParams(cycle_number), "include_dependencies", FALSE)
        THEN <<"dependencies">> ELSE << >>)
    \o (IF Get(CycleParams(cycle_number), "include_history", FALSE)
        THEN <<"context">> ELSE << >>)

\* C13: under the Sequential strategy the analyzers are called in the
\* order classification, architecture, dependencies, context (the last
\* two only when the cycle parameters enable them); an analyzer that
\* raises gets an error marker and every later applicable analyzer is
\* still called.
C13_SequentialOrderSurvivesFailures ==
    strategy = "sequential" =>
        \A i \in DOMAIN invoked :
            /\ IsPrefix(invoked[i], SequentialOrder(i))
            /\ i \in DOMAIN cycle_results =>
                  /\ invoked[i] = SequentialOrder(i)
                  /\ DOMAIN cycle_results[i].results
                        = SeqToSet(SequentialOrder(i))
                  /\ \A a \in DOMAIN cycle_results[i].results :
                        \/ cycle_results[i].results[a] \in Payloads(a)
                        \/ \E m \in ErrorMessages :
                              cycle_results[i].results[a] = [error |-> m]

C13_Witness ==
    /\ strategy = "sequential"
    /\ Len(cycle_results) >= 2
    /\ invoked[2] = ResultOrder
    /\ "error" \in DOMAIN cycle_results[2].results["classification"]
    /\ "error" \in DOMAIN cycle_results[2].results["dependencies"]
    /\ cycle_results[2].results["architecture"] \in ArchitecturePayloads
    /\ cycle_results[2].results["context"] \in ContextPayloads

\* Cycle n is fully merged: the knowledge store holds its entry and the
\* confidence trajectory its scores.
Merged(n) ==
    /\ n \in DOMAIN cycle_results
    /\ <<"cycle_", n>> \in DOMAIN accumulated_knowledge
    /\ accumulated_knowledge[<<"cycle_", n>>].results = cycle_results[n].results
    /\ accumulated_knowledge[<<"cycle_", n>>].confidence_scores
          = cycle_results[n].confidence_scores
    /\ n \in DOMAIN confidence_trajectory
    /\ confidence_trajectory[n] = cycle_results[n].confidence_scores

\* C14: under every strategy, when cycle n+1 has started (its calls are
\* dispatched or about to be) cycle n is fully merged into the knowledge
\* store and the trajectory, and at most one cycle is in progress.
C14_NoCrossCycleConcurrency ==
    /\ Len(invoked) = current_cycle
    /\ Len(invoked) - Len(cycle_results) \in {0, 1}
    /\ Awaiting # {} => Len(cycle_results) = current_cycle - 1
    /\ \A n \in 1..(Len(invoked) - 1) : Merged(n)

C14_Witness ==
    /\ current_cycle = 3
    /\ Len(cycle_results) = 2
    /\ Awaiting = {"classification", "architecture"}
    /\ Merged(1)
    /\ Merged(2)
    /\ cycle_results[1].confidence_scores # cycle_results[2].confidence_scores

\* C15: with time_limit_seconds = 0 every run stops after cycle 1,
\* whatever the confidence scores are, and the stop reason is the time
\* limit.
C15_ZeroTimeLimitStopsAfterFirstCycle ==
    time_limit_seconds = 0 =>
        /\ current_cycle <= 1
        /\ CycleDone => (stop_reason = "time limit" /\ ~ENABLED BeginCycle)

\* With time_limit_seconds = 0 a first cycle whose measured duration is
\* positive is the last, and the time limit is the reason logged.
C15_StopsWhenTheCycleTookTime ==
    (time_limit_seconds = 0 /\ cycle_results # << >>
        /\ cycle_results[1].duration > 0) =>
        /\ current_cycle = 1
        /\ stop_reason = "time limit"
        /\ ~ENABLED BeginCycle

\* The seconds the cycles of the run took so far.  The wall-clock time
\* since the start of the run is at least this, Setup and the bookkeeping
\* between the cycles coming on top.
ElapsedInCycles ==
    SumSeq([i \in DOMAIN cycle_results |-> cycle_results[i].duration])

\* C16: the time limit is a budget for the whole run: when the time
\* elapsed since the start of the run exceeds time_limit_seconds at the
\* end of a cycle, no further cycle starts.
C16_TimeLimitIsRunBudget ==
    (CycleDone /\ ElapsedInCycles > time_limit_seconds)
        => ~ENABLED BeginCycle

\* What the code does bound: a cycle that itself took longer than the
\* limit is the last.
C16_LimitOnTheLastCycleAlone ==
    (CycleDone /\ LastCycle.duration > time_limit_seconds)
        => ~ENABLED BeginCycle

\* The run is set up and its first cycle has not started.
RunStarts == pc = "loop" /\ current_cycle = 0

\* C17: no state of an earlier run is visible in a later run on the same
\* coordinator: when a run starts the knowledge store holds no cycle and
\* the confidence trajectory is empty, and the trajectory always has one
\* entry per cycle of the run, entry i being cycle i's confidence scores.
C17_RunsShareNoState ==
    /\ RunStarts =>
          /\ confidence_trajectory = << >>
          /\ \A n \in 1..MaxCyclesBound :
                <<"cycle_", n>> \notin DOMAIN accumulated_knowledge
    /\ pc # "start" =>
          /\ Len(confidence_trajectory) = Len(cycle_results)
          /\ \A i \in DOMAIN cycle_results :
                confidence_trajectory[i] = cycle_results[i].confidence_scores

\* What does hold of a coordinator that is run again: the knowledge store
\* is built anew, and the trajectory ends with the entries of the run.
C17_StoreIsResetTrajectoryIsNot ==
    /\ RunStarts =>
          \A n \in 1..MaxCyclesBound :
              <<"cycle_", n>> \notin DOMAIN accumulated_knowledge
    /\ pc # "start" =>
          /\ Len(confidence_trajectory) >= Len(cycle_results)
          /\ \A i \in DOMAIN cycle_results :
                confidence_trajectory[Len(confidence_trajectory)
                                        - Len(cycle_results) + i]
                    = cycle_results[i].confidence_scores

\* Cycle i's uncertainty list has the low-confidence entry for analyzer a.
FlaggedLow(i, a) ==
    <<"Low confidence in", a>> \in SeqToSet(cycle_results[i].uncertainty_areas)

\* C18: in every cycle and for every analyzer in its results, the cycle's
\* uncertainty list has the low-confidence entry for the analyzer if and
\* only if the analyzer's entry of confidence_scores is below 0.7.
C18_LowConfidenceFlagMatchesScore ==
    \A i \in DOMAIN cycle_results :
        \A a \in DOMAIN cycle_results[i].results :
            FlaggedLow(i, a) <=> cycle_results[i].confidence_scores[a] < 70

\* The flag and the score agree on the results that carry a confidence
\* field of their own, and on the error markers.
C18_FlagMatchesScoreOfExplicitConfidence ==
    \A i \in DOMAIN cycle_results :
        \A a \in DOMAIN cycle_results[i].results :
            ("confidence" \in DOMAIN cycle_results[i].results[a]
                \/ "error" \in DOMAIN cycle_results[i].results[a])
            => (FlaggedLow(i, a)
                    <=> cycle_results[i].confidence_scores[a] < 70)

\* The deep pass of the iterative-deepening executor is running.
InDeepPass == strategy = "iterative_deepening" /\ pass = "deep"

\* The Uncertainty Tracker flagged analyzer a on the quick-pass results.
FlaggedOnQuickPass(a) ==
    /\ a \in DOMAIN quick_results
    /\ UncertaintiesOf(a, quick_results[a]) # << >>

\* C19: under the Iterative-Deepening strategy the deep pass calls only
\* the analyzers the Uncertainty Tracker flagged on the quick-pass results
\* (an analyzer with no uncertainty is called once in the cycle), and no
\* deep pass runs when the quick pass has no uncertainties.
C19_DeepPassOnlyUncertain ==
    InDeepPass =>
        /\ _identify_cycle_uncertainties(quick_results) # << >>
        /\ \A a \in DOMAIN results : FlaggedOnQuickPass(a)

\* What the deep pass is: the whole sequential pass a second time, run if
\* and only if the quick pass left an uncertainty.
C19_DeepPassRepeatsTheWholePass ==
    /\ InDeepPass =>
          /\ _identify_cycle_uncertainties(quick_results) # << >>
          /\ IsPrefix(invoked[current_cycle],
                      SequentialOrder(current_cycle)
                          \o SequentialOrder(current_cycle))
    /\ (strategy = "iterative_deepening" /\ pass = "quick"
            /\ _identify_cycle_uncertainties(results) = << >>)
          => ~ENABLED StartDeepPass
    /\ \A i \in DOMAIN cycle_results :
          strategy = "iterative_deepening" =>
              \/ invoked[i] = SequentialOrder(i)
              \/ invoked[i] = SequentialOrder(i) \o SequentialOrder(i)

\* Both passes of the iterative-deepening executor are over.
DeepPassOver == InDeepPass /\ Remaining = << >>

\* C20: under the Iterative-Deepening strategy, for every analyzer with a
\* result in both the quick and the deep pass, the result kept for the
\* cycle is one of the two and its confidence, as the Confidence Scorer
\* computes it, is the maximum of the two.
C20_DeepeningKeepsMoreConfident ==
    DeepPassOver =>
        \A a \in DOMAIN quick_results \cap DOMAIN results :
            /\ ExecutorResults[a] \in {quick_results[a], results[a]}
            /\ ScoreOf(ExecutorResults[a]) >= ScoreOf(quick_results[a])
            /\ ScoreOf(ExecutorResults[a]) >= ScoreOf(results[a])

\* The merge keeps the more confident of two results that both carry a
\* confidence field.
C20_KeepsMoreConfidentOfExplicitConfidences ==
    DeepPassOver =>
        \A a \in DOMAIN quick_results \cap DOMAIN results :
            ("confidence" \in DOMAIN quick_results[a]
                /\ "confidence" \in DOMAIN results[a])
            => /\ ExecutorResults[a] \in {quick_results[a], results[a]}
               /\ ScoreOf(ExecutorResults[a]) >= ScoreOf(quick_results[a])
               /\ ScoreOf(ExecutorResults[a]) >= ScoreOf(results[a])

\* Cycle i took no result from the knowledge store.
NothingReused(i) ==
    \A a \in DOMAIN cycle_results[i].results :
        "from_cache" \notin DOMAIN cycle_results[i].results[a]

\* C21: a cycle of the Adaptive strategy in which no result is reused
\* from cache calls the analyzers the Sequential strategy calls for the
\* same cycle parameters and returns a result map with the same keys,
\* dependencies and context included when the parameters enable them.
C21_AdaptiveDispatchesAsSequential ==
    strategy = "adaptive" =>
        \A i \in DOMAIN cycle_results :
            NothingReused(i) =>
                /\ invoked[i] = SequentialOrder(i)
                /\ DOMAIN cycle_results[i].results
                      = SeqToSet(SequentialOrder(i))

\* What an adaptive cycle does: it calls the classifier and the
\* architecture detector and nothing else, which is the sequential cycle
\* when the parameters enable neither dependencies nor history.
C21_AdaptiveStopsAfterArchitecture ==
    strategy = "adaptive" =>
        \A i \in DOMAIN cycle_results :
            /\ invoked[i] = <<"classification", "architecture">>
            /\ DOMAIN cycle_results[i].results
                  = {"classification", "architecture"}
            /\ i # 2 => invoked[i] = SequentialOrder(i)

\* What get_analysis_summary gives when it is called now.
Summary == get_analysis_summary(analysis_history, insights, uncertainty_areas)

\* C22: after cycle n of a run completes, analysis_history holds the n
\* cycle results produced so far, in cycle order, and get_analysis_summary
\* reports total_cycles_executed = n.
C22_HistoryHoldsEveryCycle ==
    CycleDone =>
        /\ analysis_history = cycle_results
        /\ Summary.total_cycles_executed = Len(cycle_results)

\* Nothing is ever put into analysis_history, so the summary reports no
\* cycle, while its count of insights is the run's.
C22_HistoryStaysEmpty ==
    /\ analysis_history = << >>
    /\ Summary.total_cycles_executed = 0
    /\ Summary.total_insights_discovered = Len(insights)

\* The entries of the knowledge store that hold a cycle.
StoredCycles(knowledge) == {k \in DOMAIN knowledge : k[1] = "cycle_"}

Emitted(cycle_result) ==
    _extract_cycle_insights(cycle_result.results, cycle_result.cycle_number)

\* C24: the run-wide insight list is append-only: a cycle leaves it as the
\* list before the cycle followed by the insights the cycle emitted,
\* duplicates across cycles kept, and no other step (final consolidation
\* included) changes it.
C24_InsightsAppendOnly ==
    [][IF Len(cycle_results') = Len(cycle_results) + 1
       THEN insights' =
               insights \o Emitted(cycle_results'[Len(cycle_results')])
       ELSE insights' = insights]_vars

C24_Witness ==
    /\ RunEnded
    /\ Len(cycle_results) = 3
    /\ Len(insights) = 5
    /\ insights[1].description = insights[2].description
    /\ insights[2].description = insights[5].description
    /\ insights[1].cycle_discovered = 1
    /\ insights[5].cycle_discovered = 3

\* Every string of the uncertainty lists of the executed cycles.
AllCycleUncertainties ==
    UNION {SeqToSet(cycle_results[i].uncertainty_areas) :
             i \in DOMAIN cycle_results}

\* C25: at the end of a run on a fresh coordinator the run-wide
\* uncertainty set is the set of all strings in the uncertainty lists of
\* the executed cycles, the cycle at which the Termination Evaluator
\* stopped the run included.
C25_UncertaintySetIsUnionOfCycles ==
    (LoopLeft \/ RunEnded) => uncertainty_areas = AllCycleUncertainties

C25_Witness ==
    /\ RunEnded
    /\ Len(cycle_results) = 2
    /\ stop_reason = "time limit"
    /\ <<"Error in", "context", "boom">>
          \in SeqToSet(cycle_results[2].uncertainty_areas)
    /\ <<"Error in", "context", "boom">> \in uncertainty_areas
    /\ <<"Low confidence in", "classification">>
          \in SeqToSet(cycle_results[1].uncertainty_areas)
          \cap SeqToSet(cycle_results[2].uncertainty_areas)
    /\ Cardinality(uncertainty_areas)
          < Len(cycle_results[1].uncertainty_areas)
              + Len(cycle_results[2].uncertainty_areas)

\* The four triggers, read off a result map: a trigger fires when the
\* analyzer's result holds the value and the value passes the test.
ComplexityFires(res) ==
    /\ "classification" \in DOMAIN res
    /\ "complexity_score" \in DOMAIN res["classification"]
    /\ res["classification"]["complexity_score"] > 7

PatternsFire(res) ==
    /\ "architecture" \in DOMAIN res
    /\ "secondary_patterns" \in DOMAIN res["architecture"]
    /\ Len(res["architecture"]["secondary_patterns"]) > 2

VulnerabilitiesFire(res) ==
    /\ "dependencies" \in DOMAIN res
    /\ "summary" \in DOMAIN res["dependencies"]
    /\ "vulnerability_count" \in DOMAIN res["dependencies"]["summary"]
    /\ res["dependencies"]["summary"]["vulnerability_count"] > 0

BusFactorFires(res) ==
    /\ "context" \in DOMAIN res
    /\ "bus_factor" \in DOMAIN res["context"]
    /\ res["context"]["bus_factor"] <= 1

\* The insights of one kind in a list, and what a fired trigger must give.
OfKind(list, kind) == SelectSeq(list, LAMBDA x : x.insight_type = kind)

OnePerTrigger(list, kind, fires, confidence, impact) ==
    IF fires
    THEN /\ Len(OfKind(list, kind)) = 1
         /\ OfKind(list, kind)[1].confidence = confidence
         /\ OfKind(list, kind)[1].impact_level = impact
    ELSE OfKind(list, kind) = << >>

ExactlyTheFiredTriggers(list, res) ==
    /\ OnePerTrigger(list, "complexity", ComplexityFires(res), 80, "high")
    /\ OnePerTrigger(list, "architecture", PatternsFire(res), 70, "medium")
    /\ OnePerTrigger(list, "security", VulnerabilitiesFire(res), 90,
                     "critical")
    /\ OnePerTrigger(list, "risk", BusFactorFires(res), 80, "high")
    /\ \A j \in DOMAIN list :
          list[j].insight_type
              \in {"complexity", "architecture", "security", "risk"}
    /\ Len(list) <= 4

\* C26: for every cycle result map the Insight Extractor emits exactly one
\* insight for each of the four triggers that fires, with the confidence
\* and impact of the trigger, and none for a trigger that does not fire;
\* hence at most 4 insights per cycle.
C26_OneInsightPerFiredTrigger ==
    pc = "extracted" => ExactlyTheFiredTriggers(insights, results)

\* The extractor is exact on the result maps that hold no error marker.
C26_ExactWhenNothingFailed ==
    (pc = "extracted"
        /\ \A a \in DOMAIN results : "error" \notin DOMAIN results[a])
    => ExactlyTheFiredTriggers(insights, results)

\* The analyzer whose result a kind of insight is drawn from.
SourceOf(kind) ==
    CASE kind = "complexity" -> "classification"
      [] kind = "architecture" -> "architecture"
      [] kind = "security" -> "dependencies"
      [] kind = "risk" -> "context"

\* The insight was drawn from a result that is an error marker.
DrawnFromError(insight) ==
    "error" \in DOMAIN
        cycle_results[insight.cycle_discovered]
            .results[SourceOf(insight.insight_type)]

\* C27: an analyzer result that is an error marker never fires an insight
\* trigger: no insight of a cycle is drawn from a failed analyzer, and a
\* cycle in which the context analyzer failed emits no low-bus-factor
\* risk insight.
C27_NoInsightFromErrorMarker ==
    \A j \in DOMAIN insights :
        insights[j].cycle_discovered \in DOMAIN cycle_results
            => ~DrawnFromError(insights[j])

\* The classifier, the architecture detector and the dependency mapper
\* give no insight when they failed.
C27_NoInsightFromOtherErrorMarkers ==
    \A j \in DOMAIN insights :
        (insights[j].cycle_discovered \in DOMAIN cycle_results
            /\ insights[j].insight_type # "risk")
        => ~DrawnFromError(insights[j])

\* The entry stored under the key is what that analyzer produces: one of
\* its payloads, or the marker of what it raised.
ProducedBy(a, result) ==
    \/ result \in Payloads(a)
    \/ \E m \in ErrorMessages : result = [error |-> m]

\* C28: under the Concurrent strategy every entry of the result map is
\* stored under the name of the analyzer that produced it: for all cycle
\* parameters the orchestrator builds, the task at position i of the gather
\* is the analyzer of the i-th result key, the history is never enabled
\* without the dependencies, and no context result is labelled
\* dependencies.
C28_PositionalPairingNeverMislabels ==
    /\ \A n \in 1..MaxCyclesBound :
          /\ Get(CycleParams(n), "include_history", FALSE)
                => Get(CycleParams(n), "include_dependencies", FALSE)
          /\ \A i \in DOMAIN ParallelTasks(CycleParams(n)) :
                ParallelTasks(CycleParams(n))[i] = ResultOrder[i]
    /\ strategy = "parallel" =>
          \A i \in DOMAIN cycle_results :
              /\ \A a \in DOMAIN cycle_results[i].results :
                    ProducedBy(a, cycle_results[i].results[a])
              /\ "dependencies" \in DOMAIN cycle_results[i].results
                    => cycle_results[i].results["dependencies"]
                          \notin ContextPayloads

C28_Witness ==
    /\ strategy = "parallel"
    /\ Len(cycle_results) >= 2
    /\ cycle_results[2].results["dependencies"] \in DependencyPayloads
    /\ cycle_results[2].results["context"] \in ContextPayloads

\* C29: in every run and under every strategy the dependency mapper and
\* the context analyzer are invoked only in the cycle of type deep analysis,
\* cycle 2; every other cycle calls only the classifier and the
\* architecture detector, so the dependency mapper is never called with
\* check_vulnerabilities set, although the optimization cycle sets it.
C29_DependenciesAndContextOnlyInDeepAnalysis ==
    /\ \A n \in 1..MaxCyclesBound :
          _determine_cycle_type(n) = "deep_analysis" <=> n = 2
    /\ \A i \in DOMAIN invoked :
          /\ SeqToSet(invoked[i]) \cap {"dependencies", "context"} # {}
                => i = 2
          /\ i # 2 => SeqToSet(invoked[i])
                          \subseteq {"classification", "architecture"}
          /\ "dependencies" \in SeqToSet(invoked[i])
                => ~Get(CycleParams(i), "check_vulnerabilities", FALSE)

C29_Witness ==
    /\ Len(cycle_results) >= 4
    /\ _determine_cycle_type(4) = "optimization"
    /\ Get(CycleParams(4), "check_vulnerabilities", FALSE)
    /\ {"dependencies", "context"} \subseteq SeqToSet(invoked[2])
    /\ SeqToSet(invoked[4]) = {"classification", "architecture"}

\* C30: under every strategy every cycle's result map has an entry for
\* classification and one for architecture, a payload or an error marker,
\* so confidence_scores is never empty and the average confidence the
\* termination evaluator computes after the cycle is defined: the division
\* by the number of scores never raises.
C30_AverageConfidenceAlwaysDefined ==
    /\ exception # "ZeroDivisionError"
    /\ \A i \in DOMAIN cycle_results :
          /\ {"classification", "architecture"}
                \subseteq DOMAIN cycle_results[i].results
          /\ \A a \in {"classification", "architecture"} :
                ProducedBy(a, cycle_results[i].results[a])
          /\ DOMAIN cycle_results[i].confidence_scores # {}
    /\ \A i \in DOMAIN confidence_trajectory :
          DOMAIN confidence_trajectory[i] # {}

\* A cycle in which every analyzer raised and the evaluator went on to the
\* average: it is taken over the two scores of the error markers.
C30_Witness ==
    /\ pc = "loop"
    /\ stop_reason # "time limit"
    /\ Len(cycle_results) >= 1
    /\ LET last == cycle_results[Len(cycle_results)]
       IN  /\ \A a \in DOMAIN last.results : "error" \in DOMAIN last.results[a]
           /\ Cardinality(DOMAIN last.confidence_scores) = 2
=============================================================================
